---- MODULE Spec2Model ----
(***************************************************************************)
(* Model of init_plugin.py: the Datasette plugin project generator.        *)
(*                                                                         *)
(* A string is a sequence of one-character strings.  A path is the         *)
(* sequence of its components below "/" (every path of the program is      *)
(* absolute, because output_dir is resolved before use).  The filesystem   *)
(* is the set of existing directories and a function from the paths of     *)
(* the regular files to their content; there are no symbolic links.        *)
(* A file's content is the sequence of the segments its template is made   *)
(* of: literal chunks of the template and the substituted strings.         *)
(***************************************************************************)
EXTENDS Integers, Sequences, FiniteSets, TLC

\* Longest plugin name, counted in pieces of Pieces.
MaxPieces == 3
\* Number of invocations of the tool on the same target in one behaviour.
MaxRuns == 2

(***************************** strings *************************************)

\* "datasette-", the prefix the name is expected to start with.
NAME_PREFIX == <<"d","a","t","a","s","e","t","t","e","-">>
\* "datasette_", the text removed from the entry-point key.
MODULE_PREFIX == <<"d","a","t","a","s","e","t","t","e","_">>
HYPHEN == <<"-">>
UNDERSCORE == <<"_">>
EMPTY == <<>>
TESTS == <<"t","e","s","t","s">>
SLASH == "/"
DOT == <<".">>
DOTDOT == <<".", ".">>

\* str.startswith
StartsWith(s, p) == Len(s) >= Len(p) /\ SubSeq(s, 1, Len(p)) = p

\* str.replace(old, new) for a non-empty old: every non-overlapping
\* occurrence, scanning from the left.
RECURSIVE Replace(_, _, _)
Replace(s, old, new) ==
    IF Len(s) < Len(old) THEN s
    ELSE IF SubSeq(s, 1, Len(old)) = old
         THEN new \o Replace(SubSeq(s, Len(old) + 1, Len(s)), old, new)
         ELSE <<Head(s)>> \o Replace(Tail(s), old, new)

(****************************** paths **************************************)

Front(p) == SubSeq(p, 1, Len(p) - 1)
Last(p) == p[Len(p)]
IsPrefix(p, q) == Len(p) <= Len(q) /\ SubSeq(q, 1, Len(p)) = p

\* The "/"-separated pieces of a string, empty ones included.
RECURSIVE SplitSlash(_, _)
SplitSlash(s, cur) ==
    IF s = <<>> THEN <<cur>>
    ELSE IF Head(s) = SLASH THEN <<cur>> \o SplitSlash(Tail(s), <<>>)
         ELSE SplitSlash(Tail(s), Append(cur, Head(s)))

\* pathlib's parsing of a string: empty components and "." are dropped,
\* ".." is kept.
Parts(s) == SelectSeq(SplitSlash(s, <<>>), LAMBDA c : c # EMPTY /\ c # DOT)

\* pathlib's  path / s : an absolute s replaces the path.
Join(path, s) ==
    IF s # <<>> /\ Head(s) = SLASH THEN Parts(s) ELSE path \o Parts(s)

(**************************** filesystem ***********************************)

\* The kernel's walk of a path whose every component must be a directory.
RECURSIVE WalkDir(_, _, _, _)
WalkDir(D, F, cur, parts) ==
    IF parts = <<>> THEN [err |-> "OK", at |-> cur]
    ELSE IF Head(parts) = DOTDOT
         THEN WalkDir(D, F, IF cur = <<>> THEN cur ELSE Front(cur), Tail(parts))
         ELSE LET nxt == Append(cur, Head(parts)) IN
              IF nxt \in D THEN WalkDir(D, F, nxt, Tail(parts))
              ELSE [err |-> IF nxt \in DOMAIN F THEN "ENOTDIR" ELSE "ENOENT",
                    at |-> cur]

\* Path.is_dir()
IsDir(D, F, path) == WalkDir(D, F, <<>>, path).err = "OK"

\* The file a path names, once its directory exists.
FileAt(D, F, path) == Append(WalkDir(D, F, <<>>, Front(path)).at, Last(path))

\* Path.exists()
Exists(D, F, path) ==
    \/ IsDir(D, F, path)
    \/ /\ path # <<>>
       /\ IsDir(D, F, Front(path))
       /\ FileAt(D, F, path) \in DOMAIN F

\* os.mkdir: the directories afterwards and the error.
OsMkdir(D, F, path) ==
    IF path = <<>> THEN [dirs |-> D, err |-> "EEXIST"]
    ELSE LET w == WalkDir(D, F, <<>>, Front(path)) IN
         IF w.err # "OK" THEN [dirs |-> D, err |-> w.err]
         ELSE IF Last(path) = DOTDOT THEN [dirs |-> D, err |-> "EEXIST"]
         ELSE LET t == Append(w.at, Last(path)) IN
              IF t \in D \/ t \in DOMAIN F THEN [dirs |-> D, err |-> "EEXIST"]
              ELSE [dirs |-> D \cup {t}, err |-> "OK"]

\* Path.mkdir(parents, exist_ok) without honouring exist_ok.
RECURSIVE MkdirNoExistOk(_, _, _, _, _)
MkdirNoExistOk(D, F, path, parents, exist_ok) ==
    LET r == OsMkdir(D, F, path) IN
    IF r.err = "OK" THEN r
    ELSE IF r.err = "ENOENT"
         THEN IF ~parents \/ path = <<>> THEN r
              ELSE LET pr == MkdirNoExistOk(D, F, Front(path), TRUE, TRUE) IN
                   IF pr.err # "OK" THEN pr
                   ELSE MkdirNoExistOk(pr.dirs, F, path, FALSE, exist_ok)
         ELSE r

\* Path.mkdir(parents, exist_ok).
RECURSIVE Mkdir(_, _, _, _, _)
Mkdir(D, F, path, parents, exist_ok) ==
    LET r == OsMkdir(D, F, path) IN
    IF r.err = "OK" THEN r
    ELSE IF r.err = "ENOENT"
         THEN IF ~parents \/ path = <<>> THEN r
              ELSE LET pr == Mkdir(D, F, Front(path), TRUE, TRUE) IN
                   IF pr.err # "OK" THEN pr
                   ELSE Mkdir(pr.dirs, F, path, FALSE, exist_ok)
         ELSE IF ~exist_ok \/ ~IsDir(D, F, path) THEN r
              ELSE [dirs |-> D, err |-> "OK"]

\* The file function with path t holding text.
Store(F, t, text) ==
    [q \in DOMAIN F \cup {t} |-> IF q = t THEN text ELSE F[q]]

\* Path.write_text opening the file for appending.
WriteTextAppend(D, F, path, text) ==
    LET w == WalkDir(D, F, <<>>, Front(path)) IN
    IF w.err # "OK" THEN [files |-> F, err |-> w.err]
    ELSE IF Last(path) = DOTDOT THEN [files |-> F, err |-> "EISDIR"]
    ELSE LET t == Append(w.at, Last(path)) IN
         IF t \in D THEN [files |-> F, err |-> "EISDIR"]
         ELSE [files |-> Store(F, t, IF t \in DOMAIN F THEN F[t] \o text ELSE text),
               err |-> "OK"]

\* Path.write_text: open(path, "w") creates or truncates the file, then the
\* text is written.
WriteText(D, F, path, text) ==
    LET w == WalkDir(D, F, <<>>, Front(path)) IN
    IF w.err # "OK" THEN [files |-> F, err |-> w.err]
    ELSE IF Last(path) = DOTDOT THEN [files |-> F, err |-> "EISDIR"]
    ELSE LET t == Append(w.at, Last(path)) IN
         IF t \in D THEN [files |-> F, err |-> "EISDIR"]
         ELSE [files |-> Store(F, t, text), err |-> "OK"]

(***************************** templates **********************************)

\* A literal chunk of a template.
Lit(chunk) == <<chunk>>

\* Number of characters of a text.
RECURSIVE TextLen(_)
TextLen(text) == IF text = <<>> THEN 0 ELSE Len(Head(text)) + TextLen(Tail(text))

\* The entry-point key with only a leading "datasette_" removed.
StripLeadingPrefix(module) ==
    IF StartsWith(module, MODULE_PREFIX)
    THEN SubSeq(module, Len(MODULE_PREFIX) + 1, Len(module))
    ELSE module

\* The key of the entry-point line.
EntryPointKey(module) == Replace(module, MODULE_PREFIX, EMPTY)

PyprojectText(n, module) ==
    << Lit("[project] name = "), n,
       Lit(" version = 0.1.0 ... [project.entry-points.datasette] "),
       EntryPointKey(module), Lit(" = "), module,
       Lit(" [build-system] requires = [setuptools>=61.0] ...") >>

ReadmeText(n) ==
    << Lit("# "), n, Lit(" A Datasette plugin. ... pip install "), n,
       Lit(" ... plugins: "), n, Lit(": option1: value1 ... pytest") >>

InitPyText(n) ==
    << Lit("docstring "), n,
       Lit(" from datasette import hookimpl ... @hookimpl def prepare_connection(conn): ... plugin_config("),
       n, Lit(") ... def render_cell(...)") >>

TestsInitText == <<>>

TestPyText(n) ==
    << Lit("Tests for "), n,
       Lit(" ... async def test_plugin_is_installed(): ... assert "), n,
       Lit(" in installed_plugins ...") >>

PytestIniText == << Lit("[pytest] asyncio_mode = auto") >>

GitignoreText == << Lit("__pycache__/ *.py[cod] ... venv/") >>

\* f"test_{module_name}.py"
TestFileName(module) == <<"t","e","s","t","_">> \o module \o <<".","p","y">>

(****************************** program ************************************)

VARIABLES
    pc,           \* the statement the process is at
    name,         \* args.name / create_plugin's name
    output_dir,   \* create_plugin's output_dir
    module_name, plugin_dir, module_dir, tests_dir,
    d,            \* position of the loop over the three directories
    dirs, files,  \* the filesystem
    stdout,       \* what was printed
    err,          \* the uncaught exception, "OK" when there is none
    log,          \* history: the filesystem steps of this run that completed
    failed,       \* history: the step that raised
    injected,     \* history: the environment made an operation fail
    run,          \* history: number of the invocation
    files1,       \* history: the files when the first invocation returned
    start         \* history: what the filesystem held at the start

vars == << pc, name, output_dir, module_name, plugin_dir, module_dir, tests_dir,
           d, dirs, files, stdout, err, log, failed, injected, run, files1, start >>

\* The pieces the plugin names of the model are made of.
Pieces == { NAME_PREFIX, HYPHEN, <<"X">>, TESTS, <<SLASH>>, DOTDOT }

RECURSIVE Flatten(_)
Flatten(ps) == IF ps = <<>> THEN <<>> ELSE Head(ps) \o Flatten(Tail(ps))

\* The non-empty plugin names given on the command line.
Names == { Flatten(ps) : ps \in UNION { [1..n -> Pieces] : n \in 1..MaxPieces } }

\* Path(args.path).resolve(): an absolute path.
OutputDir == << <<"w">>, <<"o">> >>

\* A path with its ".." components resolved against the components alone.
RECURSIVE LexNorm(_, _)
LexNorm(acc, parts) ==
    IF parts = <<>> THEN acc
    ELSE IF Head(parts) = DOTDOT
         THEN LexNorm(IF acc = <<>> THEN acc ELSE Front(acc), Tail(parts))
         ELSE LexNorm(Append(acc, Head(parts)), Tail(parts))

Prefixes(p) == { SubSeq(p, 1, k) : k \in 0..Len(p) }

\* The directories and the files the tool is about to produce for a name.
TargetDirs(n) ==
    LET root == Join(OutputDir, n)
        module == Replace(n, HYPHEN, UNDERSCORE)
    IN { LexNorm(<<>>, root), LexNorm(<<>>, Join(root, module)),
         LexNorm(<<>>, Join(root, TESTS)) }

TargetFiles(n) ==
    LET root == Join(OutputDir, n)
        module == Replace(n, HYPHEN, UNDERSCORE)
    IN { LexNorm(<<>>, Append(root, <<"pyproject.toml">>)),
         LexNorm(<<>>, Append(root, <<"README.md">>)),
         LexNorm(<<>>, Append(Join(root, module), <<"__init__.py">>)),
         LexNorm(<<>>, Append(Join(root, TESTS), <<"__init__.py">>)),
         LexNorm(<<>>, Join(Join(root, TESTS), TestFileName(module))),
         LexNorm(<<>>, Append(root, <<"pytest.ini">>)),
         LexNorm(<<>>, Append(root, <<".gitignore">>)) }

\* What an earlier, unrelated tool left in a target file.
OldText == << Lit("old") >>

NoFiles == [q \in {} |-> <<>>]

\* The process starts in main with the name from the command line, on a
\* filesystem where any of the directories may exist already, the target
\* files may hold older content, and a regular file may sit where one of
\* the directories is to be.
Init ==
    /\ pc = "main"
    /\ name \in Names
    /\ output_dir = <<>>
    /\ module_name = <<>>
    /\ plugin_dir = <<>>
    /\ module_dir = <<>>
    /\ tests_dir = <<>>
    /\ d = 0
    /\ \E S \in SUBSET ({Front(OutputDir), OutputDir} \cup TargetDirs(name)) :
          dirs = UNION { Prefixes(p) : p \in S \cup {<<>>} }
    /\ \E old \in BOOLEAN, b \in {<<>>} \cup TargetDirs(name) :
          LET olds == { t \in TargetFiles(name) :
                          old /\ t \notin dirs /\ t # <<>> /\ Front(t) \in dirs }
              blocker == IF b # <<>> /\ b \notin dirs /\ Front(b) \in dirs
                         THEN {b} ELSE {}
          IN /\ files = [q \in olds \cup blocker |-> OldText]
             /\ start = IF blocker # {} THEN "blocked"
                        ELSE IF olds # {} THEN "old"
                        ELSE IF dirs = {<<>>} THEN "bare" ELSE "dirs"
    /\ stdout = <<>>
    /\ err = "OK"
    /\ log = <<>>
    /\ failed = "none"
    /\ injected = FALSE
    /\ run = 1
    /\ files1 = NoFiles

\* An exception nobody catches ends the process; otherwise the next
\* statement runs.  This variant goes on after an exception.
PropagateSwallow(e, next) == next

Propagate(e, next) == IF e = "OK" THEN next ELSE "raised"

\* main, lines 239-240: the arguments and the resolved output directory.
MainParseArgs ==
    /\ pc = "main"
    /\ output_dir' = OutputDir
    /\ pc' = "main_exists"
    /\ UNCHANGED << name, module_name, plugin_dir, module_dir, tests_dir, d, dirs,
                    files, stdout, err, log, failed, injected, run, files1, start >>

\* main, lines 242-243: create the output directory when it is missing.
MainMkdir ==
    /\ pc = "main_exists"
    /\ ~Exists(dirs, files, output_dir)
    /\ \E fault \in {"none", "EACCES"} :
          LET r == IF fault = "none" THEN Mkdir(dirs, files, output_dir, TRUE, FALSE)
                   ELSE [dirs |-> dirs, err |-> fault]
          IN /\ dirs' = r.dirs
             /\ err' = r.err
             /\ failed' = IF r.err = "OK" THEN failed ELSE "output_dir"
             /\ injected' = (injected \/ fault # "none")
             /\ pc' = Propagate(r.err, "warn")
    /\ UNCHANGED << name, output_dir, module_name, plugin_dir, module_dir, tests_dir,
                    d, files, stdout, log, run, files1, start >>

\* main, line 242: the output directory exists.
MainExists ==
    /\ pc = "main_exists"
    /\ Exists(dirs, files, output_dir)
    /\ pc' = "warn"
    /\ UNCHANGED << name, output_dir, module_name, plugin_dir, module_dir, tests_dir,
                    d, dirs, files, stdout, err, log, failed, injected, run, files1, start >>

\* create_plugin, lines 22-23: the warning about the prefix.
Warn ==
    /\ pc = "warn"
    /\ stdout' = IF ~StartsWith(name, NAME_PREFIX)
                 THEN Append(stdout, "Warning: Plugin name should start with 'datasette-'")
                 ELSE stdout
    /\ pc' = "names"
    /\ UNCHANGED << name, output_dir, module_name, plugin_dir, module_dir, tests_dir,
                    d, dirs, files, err, log, failed, injected, run, files1, start >>

\* name.replace("-", "_") replacing the first hyphen only.
ModuleNameFirstOnly(n) ==
    IF \E i \in 1..Len(n) : n[i] = "-"
    THEN LET i == CHOOSE i \in 1..Len(n) :
                    n[i] = "-" /\ \A j \in 1..(i - 1) : n[j] # "-"
         IN SubSeq(n, 1, i - 1) \o UNDERSCORE \o SubSeq(n, i + 1, Len(n))
    ELSE n

\* line 26
ModuleName(n) == Replace(n, HYPHEN, UNDERSCORE)

\* create_plugin, lines 26-31: the module name and the three directories.
DeriveNames ==
    /\ pc = "names"
    /\ module_name' = ModuleName(name)
    /\ plugin_dir' = Join(output_dir, name)
    /\ module_dir' = Join(plugin_dir', module_name')
    /\ tests_dir' = Join(plugin_dir', TESTS)
    /\ d' = 1
    /\ pc' = "mkdir"
    /\ UNCHANGED << name, output_dir, dirs, files, stdout, err, log, failed,
                    injected, run, files1, start >>

\* The list of line 33 in another order.
DirListReversed == << "tests_dir", "module_dir", "plugin_dir" >>

\* The list of line 33.
DirList == << "plugin_dir", "module_dir", "tests_dir" >>

DirPath(which) ==
    CASE which = "plugin_dir" -> plugin_dir
      [] which = "module_dir" -> module_dir
      [] which = "tests_dir" -> tests_dir

\* create_plugin, lines 33-34: one turn of the loop over the directories.
MkdirStep ==
    /\ pc = "mkdir"
    /\ \E fault \in {"none", "EACCES"} :
          LET which == DirList[d]
              r == IF fault = "none"
                   THEN Mkdir(dirs, files, DirPath(which), TRUE, TRUE)
                   ELSE [dirs |-> dirs, err |-> fault]
          IN /\ dirs' = r.dirs
             /\ err' = r.err
             /\ failed' = IF r.err = "OK" THEN failed ELSE which
             /\ injected' = (injected \/ fault # "none")
             /\ log' = IF r.err = "OK"
                       THEN Append(log, [step |-> which,
                                         at |-> WalkDir(r.dirs, files, <<>>, DirPath(which)).at,
                                         text |-> <<>>])
                       ELSE log
             /\ d' = IF r.err = "OK" THEN d + 1 ELSE d
             /\ pc' = Propagate(r.err, IF d = Len(DirList) THEN "pyproject.toml" ELSE "mkdir")
    /\ UNCHANGED << name, output_dir, module_name, plugin_dir, module_dir, tests_dir,
                    files, stdout, run, files1, start >>

\* One write_text statement: the file is written and the next statement
\* follows, or the exception leaves the function.  The environment may make
\* the open fail, or the write after the file was truncated.
WriteStep(step, path, text, next) ==
    /\ pc = step
    /\ \E fault \in {"none", "EACCES"} \cup (IF text = <<>> THEN {} ELSE {"ENOSPC"}) :
          LET r == CASE fault = "none" -> WriteText(dirs, files, path, text)
                     [] fault = "EACCES" -> [files |-> files, err |-> fault]
                     [] fault = "ENOSPC" ->
                          LET o == WriteText(dirs, files, path, <<>>) IN
                          [files |-> o.files,
                           err |-> IF o.err = "OK" THEN fault ELSE o.err]
          IN /\ files' = r.files
             /\ err' = r.err
             /\ failed' = IF r.err = "OK" THEN failed ELSE step
             /\ injected' = (injected \/ fault # "none")
             /\ log' = IF r.err = "OK"
                       THEN Append(log, [step |-> step,
                                         at |-> FileAt(dirs, files, path),
                                         text |-> text])
                       ELSE log
             /\ pc' = Propagate(r.err, next)
    /\ UNCHANGED << name, output_dir, module_name, plugin_dir, module_dir, tests_dir,
                    d, dirs, stdout, run, files1, start >>

\* lines 37-63
WritePyproject ==
    WriteStep("pyproject.toml", Append(plugin_dir, <<"pyproject.toml">>),
              PyprojectText(name, module_name), "README.md")

\* lines 66-103
WriteReadme ==
    WriteStep("README.md", Append(plugin_dir, <<"README.md">>),
              ReadmeText(name), "module/__init__.py")

\* lines 106-163
WriteInitPy ==
    WriteStep("module/__init__.py", Append(module_dir, <<"__init__.py">>),
              InitPyText(name), "tests/__init__.py")

\* line 166
WriteTestsInit ==
    WriteStep("tests/__init__.py", Append(tests_dir, <<"__init__.py">>),
              TestsInitText, "tests/test_module.py")

\* lines 169-202
WriteTestPy ==
    WriteStep("tests/test_module.py", Join(tests_dir, TestFileName(module_name)),
              TestPyText(name), "pytest.ini")

\* lines 205-208
WritePytestIni ==
    WriteStep("pytest.ini", Append(plugin_dir, <<"pytest.ini">>),
              PytestIniText, ".gitignore")

\* lines 211-225
WriteGitignore ==
    WriteStep(".gitignore", Append(plugin_dir, <<".gitignore">>),
              GitignoreText, "print")

\* lines 227-231: the closing messages; create_plugin and main return.
PrintCreated ==
    /\ pc = "print"
    /\ stdout' = stdout \o << "Created plugin at", "Next steps" >>
    /\ pc' = "done"
    /\ UNCHANGED << name, output_dir, module_name, plugin_dir, module_dir, tests_dir,
                    d, dirs, files, err, log, failed, injected, run, files1, start >>

\* The user runs the tool again with the same arguments.
Rerun ==
    /\ pc = "done"
    /\ run < MaxRuns
    /\ run' = run + 1
    /\ files1' = IF run = 1 THEN files ELSE files1
    /\ pc' = "main"
    /\ output_dir' = <<>>
    /\ module_name' = <<>>
    /\ plugin_dir' = <<>>
    /\ module_dir' = <<>>
    /\ tests_dir' = <<>>
    /\ d' = 0
    /\ stdout' = <<>>
    /\ log' = <<>>
    /\ UNCHANGED << name, dirs, files, err, failed, injected, start >>

Next ==
    \/ MainParseArgs
    \/ MainMkdir
    \/ MainExists
    \/ Warn
    \/ DeriveNames
    \/ MkdirStep
    \/ WritePyproject
    \/ WriteReadme
    \/ WriteInitPy
    \/ WriteTestsInit
    \/ WriteTestPy
    \/ WritePytestIni
    \/ WriteGitignore
    \/ PrintCreated
    \/ Rerun

Spec == Init /\ [][Next]_vars

(******************************* claims ************************************)

FileSteps == { "pyproject.toml", "README.md", "module/__init__.py",
               "tests/__init__.py", "tests/test_module.py", "pytest.ini",
               ".gitignore" }

DirSteps == { "plugin_dir", "module_dir", "tests_dir" }

\* The order of the statements in create_plugin.
Order == << "plugin_dir", "module_dir", "tests_dir", "pyproject.toml", "README.md",
            "module/__init__.py", "tests/__init__.py", "tests/test_module.py",
            "pytest.ini", ".gitignore" >>

IndexOf(step) == CHOOSE i \in DOMAIN Order : Order[i] = step

Labels(l) == [i \in DOMAIN l |-> l[i].step]

Printed == \E i \in DOMAIN stdout : stdout[i] = "Created plugin at"

Warned ==
    \E i \in DOMAIN stdout :
        stdout[i] = "Warning: Plugin name should start with 'datasette-'"

\* The text the latest completed write of this run gave to the file of
\* log entry i.
LatestText(i) ==
    LET j == CHOOSE j \in DOMAIN log :
                 /\ log[j].step \in FileSteps
                 /\ log[j].at = log[i].at
                 /\ \A k \in DOMAIN log :
                        (log[k].step \in FileSteps /\ log[k].at = log[i].at) => k <= j
    IN log[j].text

NumHyphens(s) == Cardinality({ i \in DOMAIN s : s[i] = "-" })

\* C1: the entry-point line written into pyproject.toml has as key the
\* module name with only its leading "datasette_" removed, and as value the
\* module name.
C1_EntryPointKeyStripsLeadingPrefixOnly ==
    \A i \in DOMAIN log :
        log[i].step = "pyproject.toml" =>
            /\ log[i].text[4] = StripLeadingPrefix(Replace(name, HYPHEN, UNDERSCORE))
            /\ log[i].text[6] = Replace(name, HYPHEN, UNDERSCORE)

\* C2: after a successful run all seven files exist, every one but
\* tests/__init__.py is non-empty, and <module>/__init__.py holds the hook
\* stub.
C2_AllFilesPresentAndNonEmpty ==
    pc = "done" =>
        /\ \A i \in DOMAIN log :
              log[i].step \in FileSteps =>
                 /\ log[i].at \in DOMAIN files
                 /\ log[i].step # "tests/__init__.py" => TextLen(files[log[i].at]) > 0
        /\ \A i \in DOMAIN log :
              log[i].step = "module/__init__.py" => files[log[i].at] = InitPyText(name)

\* C3: the write steps of one invocation target pairwise distinct files, so
\* no file written earlier in the invocation is written again.
C3_WriteTargetsPairwiseDistinct ==
    \A i, j \in DOMAIN log :
        (i # j /\ log[i].step \in FileSteps /\ log[j].step \in FileSteps)
            => log[i].at # log[j].at

\* C4: the module directory, the tests directory and every file written lie
\* inside the project root.
C4_EverythingInsideRoot ==
    \A i \in DOMAIN log : IsPrefix(log[1].at, log[i].at)

\* C5: a second run with the same arguments raises only when the
\* environment fails, and leaves every one of the seven files with the
\* content it had after the first run.
C5_SecondRunIdempotent ==
    run >= 2 =>
        /\ pc = "raised" => injected
        /\ pc = "done" =>
              \A i \in DOMAIN log :
                  log[i].step \in FileSteps =>
                     /\ log[i].at \in DOMAIN files1
                     /\ log[i].at \in DOMAIN files
                     /\ files[log[i].at] = files1[log[i].at]

C5_Witness ==
    /\ run = 2
    /\ pc = "done"
    /\ start = "old"
    /\ Len(log) = Len(Order)
    /\ \A p \in DOMAIN files : files[p] # OldText

\* C6: a name without the prefix gets the warning, and the run then creates
\* the three directories and the seven files and finishes successfully.
C6_UnprefixedNameCompletes ==
    (/\ ~StartsWith(name, NAME_PREFIX)
     /\ pc \in {"done", "raised"}
     /\ ~injected
     /\ start # "blocked") =>
        /\ pc = "done"
        /\ Warned
        /\ \A i \in DOMAIN log : log[i].step \in DirSteps => log[i].at \in dirs
        /\ Cardinality({ log[i].at : i \in { k \in DOMAIN log : log[k].step \in FileSteps } }
                       \cap DOMAIN files) = Cardinality(FileSteps)

C8_ModuleNameReplacesEveryHyphen ==
    d >= 1 =>
        /\ Len(module_name) = Len(name)
        /\ \A i \in DOMAIN name :
              module_name[i] = IF name[i] = "-" THEN "_" ELSE name[i]

C8_Witness ==
    /\ pc = "mkdir"
    /\ NumHyphens(name) >= 2
    /\ \E i \in DOMAIN name : name[i] = "X"
    /\ \E i \in DOMAIN name : name[i] = "d"
    /\ NumHyphens(module_name) = 0

\* C9: unless the environment fails or a regular file sits where a
\* directory is to be, main and the directory loop do not raise, whichever
\* of the directories existed before, and the three directories exist
\* afterwards.
C9_DirectoriesCreatedFromAnyStart ==
    (~injected /\ start # "blocked") =>
        /\ failed \notin {"output_dir"} \cup DirSteps
        /\ (pc \in FileSteps \cup {"print", "done"}) =>
              /\ IsDir(dirs, files, plugin_dir)
              /\ IsDir(dirs, files, module_dir)
              /\ IsDir(dirs, files, tests_dir)

C9_WitnessBare ==
    /\ pc = "pyproject.toml"
    /\ run = 1
    /\ start = "bare"
    /\ IsDir(dirs, files, tests_dir)

\* C10: the three directories are created first, the files are written in
\* the order of the source, and the closing message comes after all seven
\* writes.
C10_FixedOrder ==
    /\ Len(log) <= Len(Order)
    /\ Labels(log) = SubSeq(Order, 1, Len(log))
    /\ Printed => Len(log) = Len(Order)

C10_Witness ==
    /\ pc = "done"
    /\ Printed
    /\ Len(log) = Len(Order)

====
